---- MODULE Spec2Model ----
(***************************************************************************)
(* Link resolution core of lychee: join_rooted / strictly_relative_to      *)
(* (utils/url.rs), UrlMappings (types/url_mapping.rs), SourceBaseInfo and  *)
(* the resolution orchestrator (types/base_info.rs).                       *)
(*                                                                         *)
(* Text is a sequence of one-character strings; a URL is a record of its   *)
(* components.  Url::parse / Url::join are modelled by what they do on     *)
(* that text (scheme detection, authority, path state with "." and "..",   *)
(* query, fragment), so that a relative path printed by                    *)
(* strictly_relative_to is parsed again when it is joined.                 *)
(* The text alphabet has lowercase letters, ".", "/", ":", "?", "#" and    *)
(* the space; it has no digits, no backslash, no "@", and no Windows       *)
(* drive-letter segment (a single letter followed by ":" alone).           *)
(***************************************************************************)
EXTENDS Naturals, Sequences, FiniteSets

VARIABLES
    jBase,      \* join_rooted: `base` (self)
    jSubs,      \* join_rooted: the subpaths joined so far
    jUrl,       \* join_rooted: the loop's `url` (a Result: the `?` may fail)
    jPlain,     \* the same subpaths joined onto `base` itself with Url::join
    jPc,        \* join_rooted: "loop" | "done" | "idle"
    jOut,       \* join_rooted: the returned Result<Url, ParseError>
    rSelf,      \* strictly_relative_to: `self`
    rBase,      \* strictly_relative_to: `base`
    rUp,        \* strictly_relative_to: `traverse_up`
    rPc,        \* "call" | "done" | "idle"
    rOut,       \* strictly_relative_to: the returned Option<String>
    rJoin,      \* base.join(path) for the returned path
    sSource,    \* the Option<Url> `source` converts to
    sRoot,      \* root_and_base: Option of <<root URL, Option of base URL>>
    sFallback,  \* fallback_base: the Option<Url> it converts to
    sFail,      \* the arguments whose to_url() returns Err
    sPc,        \* "source" | "prepared" | "failed" | "parsed" | "text" | "idle"
    sInfo,      \* the SourceBaseInfo of prepare_source_base_info
    sMappings,  \* the UrlMappings of prepare_source_base_info
    sText,      \* the link text being resolved
    sUrl,       \* base_info.parse_url_text(text, None)
    sOut,       \* parse_url_with_base_info(base_info, mappings, text)
    sDir,       \* parse_url_text: `root_dir`, an Option<Url>
    sFsUrl,     \* parse_url_text with a root_dir: `url` before the root_dir step
    sRooted,    \* base_info.parse_url_text(text, root_dir)
    mList,      \* UrlMappings::new: the `mappings` argument, pairs <<left, right>>
    mPc,        \* "new" | "built" | "failed" | "found" | "back" | "panicked" | "idle"
    mRes,       \* UrlMappings::new: the returned Result
    mUrl,       \* the URL looked up
    mDir,       \* "new" (map_to_new_url) | "old" (map_to_old_url) | ""
    mFound,     \* the Option<(&Url, String)> of the lookup
    mThere,     \* found.0.join(found.1)
    mBack,      \* the lookup of that URL in the other direction
    mBackUrl,   \* back.0.join(back.1)
    fUrl,       \* from_source_url: `url`
    fPc,        \* "call" | "done" | "merged" | "idle"
    fInfo,      \* from_source_url: the returned SourceBaseInfo
    fJoin,      \* origin.join(path) of a returned Full(origin, path)
    fFallback,  \* or_fallback: `fallback`
    fOut,       \* or_fallback: the returned SourceBaseInfo
    cBase,      \* merge: `x`, the base Config
    cOverrides, \* merge: `other`, the overriding Config
    cDefined,   \* merge: `defined_set`
    cPc,        \* "call" | "done" | "idle"
    cOut        \* merge: the returned Config

jvars == <<jBase, jSubs, jUrl, jPlain, jPc, jOut>>

rvars == <<rSelf, rBase, rUp, rPc, rOut, rJoin>>

svars == <<sSource, sRoot, sFallback, sFail, sPc, sInfo, sMappings, sText, sUrl, sOut, sDir, sFsUrl, sRooted>>

mvars == <<mList, mPc, mRes, mUrl, mDir, mFound, mThere, mBack, mBackUrl>>

fvars == <<fUrl, fPc, fInfo, fJoin, fFallback, fOut>>

cvars == <<cBase, cOverrides, cDefined, cPc, cOut>>

vars == <<jBase, jSubs, jUrl, jPlain, jPc, jOut,
          rSelf, rBase, rUp, rPc, rOut, rJoin,
          sSource, sRoot, sFallback, sFail, sPc, sInfo, sMappings, sText, sUrl, sOut,
          sDir, sFsUrl, sRooted,
          mList, mPc, mRes, mUrl, mDir, mFound, mThere, mBack, mBackUrl,
          fUrl, fPc, fInfo, fJoin, fFallback, fOut,
          cBase, cOverrides, cDefined, cPc, cOut>>

-----------------------------------------------------------------------------
(* Option<T> is a sequence of length 0 (None) or 1 (Some).                 *)

None == <<>>

Some(x) == <<x>>

\* The element of a one-element set {e}: `The({ f(x) : x \in {e} })` is f(e)
\* with e computed once, the way a Rust `let x = e;` binds a value.
The(S) == CHOOSE x \in S : TRUE

(* Characters and character classes of the URL parser.                     *)

Letters == {"a", "b", "c", "d", "e", "f", "g", "h", "i", "j", "k", "l", "m",
            "n", "o", "p", "q", "r", "s", "t", "u", "v", "w", "x", "y", "z"}

SchemeChars == Letters \cup {".", "+", "-"}

Space == " "

FileScheme == <<"f", "i", "l", "e">>

HttpsScheme == <<"h", "t", "t", "p", "s">>

HttpScheme == <<"h", "t", "t", "p">>

SpecialSchemes == {FileScheme, HttpsScheme, HttpScheme,
                   <<"w", "s">>, <<"w", "s", "s">>, <<"f", "t", "p">>}

Dot == <<".">>

DotDot == <<".", ".">>

(* The authority and the path of join_rooted's fake base, as the texts of  *)
(* the code: a link text or a file name can spell either.                  *)
\* The text "secret-lychee-base-url.invalid".
SecretHost ==
    <<"s", "e", "c", "r", "e", "t", "-", "l", "y", "c", "h", "e", "e", "-",
      "b", "a", "s", "e", "-", "u", "r", "l", ".", "i", "n", "v", "a", "l",
      "i", "d">>

\* The text "/.asdjifjdsaiofjdoisa".
SecretPath ==
    <<"/", ".", "a", "s", "d", "j", "i", "f", "j", "d", "s", "a", "i", "o",
      "f", "j", "d", "o", "i", "s", "a">>

-----------------------------------------------------------------------------
(* Sequence helpers.                                                       *)

Front(s) == SubSeq(s, 1, Len(s) - 1)

Last(s) == s[Len(s)]

DropFirst(s, n) == SubSeq(s, n + 1, Len(s))

StartsWith(s, p) == Len(s) >= Len(p) /\ SubSeq(s, 1, Len(p)) = p

Range(s) == {s[i] : i \in 1..Len(s)}

\* Index of the first element of s that is in set S, or Len(s) + 1.
FirstIn(s, S) ==
    LET I == {i \in 1..Len(s) : s[i] \in S}
    IN IF I = {} THEN Len(s) + 1 ELSE CHOOSE i \in I : \A j \in I : i <= j

\* Number of leading elements of s that are in set S.
CountLeading(s, S) ==
    LET I == {i \in 1..Len(s) : s[i] \notin S}
    IN IF I = {} THEN Len(s) ELSE (CHOOSE i \in I : \A j \in I : i <= j) - 1

\* Number of trailing elements of s that are in set S.
CountTrailing(s, S) ==
    LET I == {i \in 1..Len(s) : s[i] \notin S}
    IN IF I = {} THEN Len(s) ELSE Len(s) - (CHOOSE i \in I : \A j \in I : i >= j)

RECURSIVE SplitOn(_, _)
\* str.split(c): the pieces of s between occurrences of c (at least one piece).
SplitOn(s, c) ==
    LET i == FirstIn(s, {c})
    IN IF i > Len(s) THEN <<s>>
       ELSE <<SubSeq(s, 1, i - 1)>> \o SplitOn(DropFirst(s, i), c)

RECURSIVE JoinWith(_, _)
\* [..].join(c): the pieces of ss with c between them.
JoinWith(ss, c) ==
    IF ss = <<>> THEN <<>>
    ELSE IF Len(ss) = 1 THEN ss[1]
    ELSE ss[1] \o <<c>> \o JoinWith(Tail(ss), c)

RECURSIVE PercentEncode(_)
\* The parser's percent-encoding, for the one character of the alphabet that
\* the path, query and fragment encode sets contain: the space.
PercentEncode(s) ==
    IF s = <<>> THEN <<>>
    ELSE (IF Head(s) = Space THEN <<"%", "2", "0">> ELSE <<Head(s)>>)
         \o PercentEncode(Tail(s))

\* str::trim_ascii_start
TrimAsciiStart(s) == DropFirst(s, CountLeading(s, {Space}))

\* Input::new_trim_c0_control_and_space
TrimC0ControlAndSpace(s) ==
    LET a == CountLeading(s, {Space})
        b == CountTrailing(s, {Space})
    IN IF a = Len(s) THEN <<>> ELSE SubSeq(s, a + 1, Len(s) - b)

-----------------------------------------------------------------------------
(* Url values and Result<Url, ParseError>.                                 *)

MkUrl(scheme, host, path, query, fragment) ==
    [scheme |-> scheme, host |-> host, path |-> path, opaque |-> FALSE,
     query |-> query, fragment |-> fragment]

\* A cannot-be-a-base URL: its path is one opaque string.
MkOpaque(scheme, opaquePath, query, fragment) ==
    [scheme |-> scheme, host |-> None, path |-> <<opaquePath>>, opaque |-> TRUE,
     query |-> query, fragment |-> fragment]

NoUrl == MkOpaque(<<>>, <<>>, None, None)

Ok(u) == [ok |-> TRUE, url |-> u, err |-> "", why |-> "", text |-> <<>>]

\* A url::ParseError.
ParseError(why) ==
    [ok |-> FALSE, url |-> NoUrl, err |-> "ParseError", why |-> why, text |-> <<>>]

\* A panic of `.expect("!cannot_be_a_base")`, where an Option<String> or a
\* bool is returned otherwise.
Panic == <<"panic", "!cannot_be_a_base">>

\* An Option that is Some: the call has returned, and not None.
IsSome(o) == o # None /\ o # Panic

\* The same panic where a Result<Url, _> is returned otherwise.
Panicked ==
    [ok |-> FALSE, url |-> NoUrl, err |-> "panic", why |-> "!cannot_be_a_base", text |-> <<>>]

IsSpecial(scheme) == scheme \in SpecialSchemes

\* Url::authority: no user info and no port can be written in the alphabet.
Authority(u) == IF u.host = None THEN <<>> ELSE u.host[1]

\* Url::port
Port(u) == None

\* Url::host: the empty host of a URL without special scheme is None.
Host(u) == IF u.host = Some(<<>>) THEN None ELSE u.host

\* Url::path: the path as one string.
PathText(u) ==
    IF u.opaque THEN u.path[1]
    ELSE IF u.path = <<>> THEN <<>>
    ELSE <<"/">> \o JoinWith(u.path, "/")

\* Url::path_segments: None unless the path starts with "/" (a URL that
\* cannot be a base, or one with a host and an empty path).
PathSegments(u) == IF u.opaque \/ u.path = <<>> THEN None ELSE Some(u.path)

-----------------------------------------------------------------------------
(* The URL parser (Url::parse, Url::join).                                 *)

\* Parser::parse_scheme: index of the ":" that ends a scheme, or 0.
SchemeEnd(input) ==
    LET i == FirstIn(input, {":"})
    IN IF /\ input # <<>>
          /\ input[1] \in Letters
          /\ i <= Len(input)
          /\ \A j \in 1..(i - 1) : input[j] \in SchemeChars
       THEN i ELSE 0

\* Parser::shorten_path / pop_path on the list of segments.
ShortenPath(path) == IF path = <<>> THEN <<>> ELSE Front(path)

RECURSIVE PathState(_, _, _)
\* Parser::parse_path: the path state run over the "/"-separated segments of
\* the input, starting from the segments already in the URL.
PathState(path, segs, i) ==
    IF i > Len(segs) THEN path
    ELSE LET s == segs[i]
             last == (i = Len(segs))
         IN IF s = DotDot
            THEN PathState(IF last THEN Append(ShortenPath(path), <<>>)
                           ELSE ShortenPath(path), segs, i + 1)
            ELSE IF s = Dot
            THEN PathState(IF last THEN Append(path, <<>>) ELSE path, segs, i + 1)
            ELSE PathState(Append(path, PercentEncode(s)), segs, i + 1)

RECURSIVE TrimEmptyFirst(_)
\* Parser::parse_path, file scheme: "while url's path's size is greater than 1
\* and url's path[0] is the empty string, remove the first item".
TrimEmptyFirst(path) ==
    IF Len(path) > 1 /\ path[1] = <<>> THEN TrimEmptyFirst(Tail(path)) ELSE path

\* The part of the input before the query and fragment.
BeforeQuery(input) == SubSeq(input, 1, FirstIn(input, {"?", "#"}) - 1)

AfterPath(input) == DropFirst(input, FirstIn(input, {"?", "#"}) - 1)

\* Parser::parse_path over the input up to "?" or "#".
ParsePath(scheme, start, input) ==
    The({ IF scheme = FileScheme THEN TrimEmptyFirst(p) ELSE p :
          p \in {PathState(start, SplitOn(BeforeQuery(input), "/"), 1)} })

\* Parser::parse_query_and_fragment: rest is empty or starts at "?" or "#".
ParseQuery(rest) ==
    IF StartsWith(rest, <<"?">>)
    THEN Some(PercentEncode(SubSeq(rest, 2, FirstIn(rest, {"#"}) - 1)))
    ELSE None

ParseFragment(rest) ==
    LET i == FirstIn(rest, {"#"})
    IN IF i <= Len(rest) THEN Some(PercentEncode(DropFirst(rest, i))) ELSE None

\* Parser::fragment_only
FragmentOnly(base, input) == [base EXCEPT !.fragment = ParseFragment(input)]

\* Parser::after_double_slash: authority, then path, query and fragment.
AfterDoubleSlash(scheme, input) ==
    The({ The({
        IF hostText = <<>> /\ (IsSpecial(scheme) \/ Len(auth) > 0)
        THEN \* an empty host of a special scheme, or before a port
             ParseError("EmptyHost")
        ELSE IF IsSpecial(scheme) /\ (\E i \in 1..Len(hostText) : hostText[i] \in {Space, "%"})
        THEN \* Host::parse: the domain is rejected by the IDNA mapping
             ParseError("IdnaError")
        ELSE IF ~IsSpecial(scheme) /\ (\E i \in 1..Len(hostText) : hostText[i] = Space)
        THEN \* Host::parse_opaque: a forbidden host code point
             ParseError("InvalidDomainCharacter")
        ELSE IF DropFirst(auth, Len(hostText) + 1) # <<>>
        THEN ParseError("InvalidPort")
        ELSE Ok(MkUrl(scheme, Some(hostText),
                      IF ~IsSpecial(scheme) /\ BeforeQuery(rest) = <<>> THEN <<>>
                      ELSE ParsePath(scheme, <<>>,
                                     IF StartsWith(rest, <<"/">>) THEN Tail(rest)
                                     ELSE rest),
                      ParseQuery(AfterPath(rest)), ParseFragment(rest))) :
        hostText \in {SubSeq(auth, 1, FirstIn(auth, {":"}) - 1)},
        rest \in {DropFirst(input, Len(auth))} }) :
        auth \in {SubSeq(input, 1, FirstIn(input, {"/", "?", "#"}) - 1)} })

\* Parser::parse_file: b is the base when the base is a file: URL, else None.
ParseFile(input, b) ==
    IF StartsWith(input, <<"/", "/">>)
    THEN \* file host state
         The({ The({
             IF \E i \in 1..Len(hostText) : hostText[i] \in {Space, "%", ":"}
             THEN ParseError("IdnaError")
             ELSE Ok(MkUrl(FileScheme,
                           \* parse_file_host: no host, or the host "localhost"
                           IF hostText = <<>>
                              \/ hostText = <<"l", "o", "c", "a", "l", "h", "o", "s", "t">>
                           THEN None ELSE Some(hostText),
                           ParsePath(FileScheme, <<>>,
                                     IF StartsWith(rest, <<"/">>) THEN Tail(rest)
                                     ELSE rest),
                           ParseQuery(AfterPath(rest)), ParseFragment(rest))) :
             rest \in {DropFirst(input, 2 + Len(hostText))} }) :
             hostText \in {SubSeq(input, 3, FirstIn(DropFirst(input, 2),
                                                   {"/", "?", "#"}) + 1)} })
    ELSE IF b # None /\ input = <<>> THEN Ok([b[1] EXCEPT !.fragment = None])
    ELSE IF b # None /\ StartsWith(input, <<"?">>)
    THEN Ok([b[1] EXCEPT !.query = ParseQuery(input),
                         !.fragment = ParseFragment(input)])
    ELSE IF b # None /\ StartsWith(input, <<"#">>) THEN Ok(FragmentOnly(b[1], input))
    ELSE \* file slash state (the host of the base is kept), or a path
         \* relative to the base's
         Ok(MkUrl(FileScheme, IF b = None THEN None ELSE b[1].host,
                  IF StartsWith(input, <<"/">>)
                  THEN ParsePath(FileScheme, <<>>, Tail(input))
                  ELSE ParsePath(FileScheme,
                                 IF b = None THEN <<>> ELSE ShortenPath(b[1].path),
                                 input),
                  ParseQuery(AfterPath(input)), ParseFragment(input)))

\* Parser::parse_relative: a reference without scheme against a base that is
\* not a file: URL.
ParseRelative(input, base) ==
    IF input = <<>> THEN Ok([base EXCEPT !.fragment = None])
    ELSE IF StartsWith(input, <<"?">>)
    THEN Ok([base EXCEPT !.query = ParseQuery(input),
                         !.fragment = ParseFragment(input)])
    ELSE IF StartsWith(input, <<"#">>) THEN Ok(FragmentOnly(base, input))
    ELSE IF CountLeading(input, {"/"}) >= 2
    THEN \* a scheme-relative reference: the authority follows the first "//"
         AfterDoubleSlash(base.scheme, DropFirst(input, 2))
    ELSE Ok(MkUrl(base.scheme, base.host,
                  IF StartsWith(input, <<"/">>)
                  THEN ParsePath(base.scheme, <<>>, Tail(input))
                  ELSE ParsePath(base.scheme, ShortenPath(base.path), input),
                  ParseQuery(AfterPath(input)), ParseFragment(input)))

\* Parser::parse_with_scheme: the input had a scheme; rest follows its ":".
ParseWithScheme(scheme, rest, b) ==
    IF scheme = FileScheme
    THEN ParseFile(rest, IF b # None /\ b[1].scheme = FileScheme THEN b ELSE None)
    ELSE IF /\ IsSpecial(scheme) /\ b # None
            /\ CountLeading(rest, {"/"}) < 2 /\ b[1].scheme = scheme
    THEN ParseRelative(rest, b[1])
    ELSE IF IsSpecial(scheme) \/ StartsWith(rest, <<"/", "/">>)
    THEN AfterDoubleSlash(scheme,
                          DropFirst(rest, IF IsSpecial(scheme)
                                          THEN CountLeading(rest, {"/"}) ELSE 2))
    ELSE \* Parser::parse_non_special
         IF StartsWith(rest, <<"/">>)
         THEN Ok(MkUrl(scheme, None, ParsePath(scheme, <<>>, Tail(rest)),
                       ParseQuery(AfterPath(rest)), ParseFragment(rest)))
         ELSE Ok(MkOpaque(scheme, BeforeQuery(rest), ParseQuery(AfterPath(rest)),
                          ParseFragment(rest)))

\* Parser::parse_url with an optional base URL.
ParseUrl(b, text) ==
    The({ The({
        IF colon > 0
        THEN ParseWithScheme(SubSeq(input, 1, colon - 1), DropFirst(input, colon), b)
        ELSE IF b = None THEN ParseError("RelativeUrlWithoutBase")
        ELSE IF StartsWith(input, <<"#">>) THEN Ok(FragmentOnly(b[1], input))
        ELSE IF b[1].opaque THEN ParseError("RelativeUrlWithCannotBeABaseBase")
        ELSE IF b[1].scheme = FileScheme THEN ParseFile(input, b)
        ELSE ParseRelative(input, b[1]) :
        colon \in {SchemeEnd(input)} }) :
        input \in {TrimC0ControlAndSpace(text)} })

\* Url::parse
UrlParse(text) == ParseUrl(None, text)

\* Url::join
Join(base, text) == ParseUrl(Some(base), text)

\* Url::set_host(Some(host)) on a URL that can be a base.
SetHost(u, host) == [u EXCEPT !.host = Some(host)]

-----------------------------------------------------------------------------
(* utils/url.rs: ReqwestUrlExt                                             *)

\* str::trim_start_matches('.')
TrimStartDots(s) == DropFirst(s, CountLeading(s, {"."}))

\* filename_with_query (nested in strictly_relative_to)
FilenameWithQuery(url) ==
    IF PathSegments(url) = None THEN Panic
    ELSE (IF Last(PathSegments(url)[1]) = <<>> THEN Dot
          ELSE Last(PathSegments(url)[1]))
         \o (IF url.query # None THEN <<"?">> \o url.query[1] ELSE <<>>)

\* Length of the common prefix of two segment lists (the `while let` loop).
CommonPrefixLen(a, b) ==
    LET n == IF Len(a) < Len(b) THEN Len(a) ELSE Len(b)
        D == {i \in 1..n : a[i] # b[i]}
    IN IF D = {} THEN n ELSE (CHOOSE i \in D : \A j \in D : i <= j) - 1

\* A variant of the check of lines 100-102 that lets every call traverse up.
IgnoreUnmatched(base_segments, k, traverse_up) == FALSE

\* strictly_relative_to, lines 100-102: segments of base are left unmatched
\* after the first k, and the caller did not ask to traverse up.
NotADescendant(base_segments, k, traverse_up) ==
    Len(base_segments) > k /\ ~traverse_up

\* A variant that keeps a leading empty segment.
KeepLeadingEmpty(segments) == segments

\* strictly_relative_to, lines 121-127: a path starting with an empty segment
\* gets "./" in its place.
FixLeadingEmpty(segments) ==
    IF segments # <<>> /\ segments[1] = <<>>
    THEN <<<<".", "/">>>> \o Tail(segments)
    ELSE segments

\* strictly_relative_to, lines 108-119: `remaining` with the filename pushed.
WithFilename(remaining, self_filename, needs_filename) ==
    IF ~needs_filename THEN remaining
    ELSE IF remaining # <<>> /\ self_filename = Dot THEN Append(remaining, <<>>)
    ELSE IF StartsWith(self_filename, <<".", "?">>)
    THEN Append(remaining, TrimStartDots(self_filename))
    ELSE Append(remaining, self_filename)

\* strictly_relative_to, lines 104-106: ".." for each unmatched segment of
\* base, then the unmatched segments of self.
Remaining(base_segments, self_segments, k) ==
    [i \in 1..(Len(base_segments) - k) |-> DotDot] \o DropFirst(self_segments, k)

\* strictly_relative_to, lines 92-136, over the filenames and the directory
\* segments of the two URLs.
RelativePath(base_filename, self_filename, base_segments, self_segments, fragment, traverse_up) ==
    The({ IF NotADescendant(base_segments, k, traverse_up) THEN None
          ELSE The({ Some(IF fragment # None
                          THEN relative \o <<"#">> \o fragment[1]
                          ELSE relative) :
                     relative \in { The({ JoinWith(FixLeadingEmpty(WithFilename(
                                              remaining, self_filename,
                                              remaining # <<>>
                                                \/ self_filename # base_filename)),
                                              "/") :
                                          remaining \in {Remaining(base_segments,
                                                                   self_segments, k)}
                                        }) } }) :
          k \in {CommonPrefixLen(base_segments, self_segments)} })

\* ReqwestUrlExt::strictly_relative_to: Option<String>
StrictlyRelativeTo(self, base, traverse_up) ==
    IF \/ self.opaque
       \/ base.opaque
       \/ self.scheme # base.scheme
       \/ Authority(self) # Authority(base)
       \/ Port(self) # Port(base)
    THEN None
    ELSE IF FilenameWithQuery(base) = Panic \/ FilenameWithQuery(self) = Panic
    THEN Panic
    ELSE RelativePath(FilenameWithQuery(base), FilenameWithQuery(self),
                      Front(PathSegments(base)[1]), Front(PathSegments(self)[1]),
                      self.fragment, traverse_up)

\* A variant of join_rooted that gives every base a fake base.
AlwaysFakeBase(base) == TRUE

\* join_rooted, lines 34-35 and 40: only a file: base gets a fake base.
HasFakeBase(base) == base.scheme = FileScheme

\* join_rooted, lines 36-38: the fake base (a Result: the two `?` can fail).
FakeBase(base) ==
    IF HasFakeBase(base)
    THEN The({ IF j.ok THEN Ok(SetHost(j.url, SecretHost)) ELSE j :
               j \in {Join(base, SecretPath)} })
    ELSE Ok(NoUrl)

\* join_rooted, line 43: the URL the loop starts from.
JoinStart(base) ==
    IF HasFakeBase(base) THEN FakeBase(base) ELSE Ok(base)

\* A variant of lines 48-54 that joins the empty path onto the base when the
\* relativization returns None.
JoinFinishRejoin(base, url) ==
    The({ IF rel = Panic THEN Panicked
          ELSE IF rel # None THEN Join(base, rel[1]) ELSE Join(base, <<>>) :
          rel \in { IF HasFakeBase(base)
                    THEN StrictlyRelativeTo(url, FakeBase(base).url, FALSE)
                    ELSE None } })

\* join_rooted, lines 48-54: the result for the joined `url`.
JoinFinish(base, url) ==
    The({ IF rel = Panic THEN Panicked
          ELSE IF rel # None THEN Join(base, rel[1]) ELSE Ok(url) :
          rel \in { IF HasFakeBase(base)
                    THEN StrictlyRelativeTo(url, FakeBase(base).url, FALSE)
                    ELSE None } })

RECURSIVE JoinAll(_, _)
\* join_rooted, lines 44-46: `url = url.join(subpath)?` for each subpath.
JoinAll(r, subpaths) ==
    IF ~r.ok \/ subpaths = <<>> THEN r
    ELSE The({ JoinAll(url, Tail(subpaths)) : url \in {Join(r.url, Head(subpaths))} })

\* ReqwestUrlExt::join_rooted
JoinRooted(base, subpaths) ==
    The({ IF url.ok THEN JoinFinish(base, url.url) ELSE url :
          url \in {JoinAll(JoinStart(base), subpaths)} })

-----------------------------------------------------------------------------
(* Url::make_relative and PathSegmentsMut::pop_if_empty, as called by      *)
(* types/base_info.rs.                                                     *)

\* Url::make_relative, "Add `..` segments for the remainder of the base
\* path": the loop breaks at the first empty segment.
UpSegments(baseRest) ==
    [i \in 1..CountLeading(baseRest, {s \in Range(baseRest) : s # <<>>}) |-> DotDot]

RECURSIVE PushSegments(_, _)
\* Url::make_relative, "Append the remainder of the other URI": a "/" is
\* pushed before a segment only when `relative` is not empty.
PushSegments(relative, segs) ==
    IF segs = <<>> THEN relative
    ELSE PushSegments((IF relative # <<>> THEN relative \o <<"/">> ELSE relative)
                      \o Head(segs), Tail(segs))

\* Index of the last "/" of s, or 0 (`s.rfind('/').unwrap_or(0)`, counted
\* from 0 as the code does when there is one).
LastSlash(s) ==
    LET I == {i \in 1..Len(s) : s[i] = "/"}
    IN IF I = {} THEN 0 ELSE (CHOOSE i \in I : \A j \in I : i >= j) - 1

\* Url::make_relative, extract_path_filename: the path is split at the last
\* "/" and the first character of the second part is dropped.
ExtractPathFilename(s) ==
    <<SubSeq(s, 1, LastSlash(s)), DropFirst(s, LastSlash(s) + 1)>>

\* Url::make_relative: the path part of the result, for the "/"-separated
\* pieces of the two paths, which agree on the first k.
RelativeText(base_path, base_filename, url_path, url_filename, k) ==
    The({ IF dirs # <<>> \/ base_filename # url_filename
          THEN IF url_filename = <<>> THEN dirs \o <<"/">>
               ELSE (IF dirs # <<>> THEN dirs \o <<"/">> ELSE dirs) \o url_filename
          ELSE dirs :
          dirs \in { PushSegments(PushSegments(<<>>, UpSegments(DropFirst(base_path, k))),
                                  DropFirst(url_path, k)) } })

\* Url::make_relative: self.make_relative(url), an Option<String>.
MakeRelative(self, url) ==
    IF self.opaque THEN None
    ELSE IF self.scheme # url.scheme \/ Host(self) # Host(url) \/ Port(self) # Port(url)
    THEN None
    ELSE The({ Some(RelativeText(SplitOn(b[1], "/"), b[2], SplitOn(u[1], "/"), u[2],
                                 CommonPrefixLen(SplitOn(b[1], "/"), SplitOn(u[1], "/")))
                    \o (IF url.query # None THEN <<"?">> \o url.query[1] ELSE <<>>)
                    \o (IF url.fragment # None THEN <<"#">> \o url.fragment[1] ELSE <<>>)) :
               b \in {ExtractPathFilename(PathText(self))},
               u \in {ExtractPathFilename(PathText(url))} })

\* A variant of pop_if_empty that pops nothing.
NoPop(url) == url

\* url.path_segments_mut().map(PathSegmentsMut::pop_if_empty): a trailing "/"
\* after the first one is removed; query and fragment are kept.
PopIfEmpty(url) ==
    IF url.opaque THEN url
    ELSE IF Len(url.path) > 1 /\ Last(url.path) = <<>>
    THEN [url EXCEPT !.path = Front(url.path)]
    ELSE url

-----------------------------------------------------------------------------
(* ErrorKind and Result<Url, ErrorKind>                                    *)

\* ErrorKind::ParseUrl(e, text)
ErrParseUrl(why, text) ==
    [ok |-> FALSE, url |-> NoUrl, err |-> "ParseUrl", why |-> why, text |-> text]

\* ErrorKind::InvalidBaseJoin(text)
ErrInvalidBaseJoin(text) ==
    [ok |-> FALSE, url |-> NoUrl, err |-> "InvalidBaseJoin", why |-> "", text |-> text]

\* .map_err(|e| ErrorKind::ParseUrl(e, text.to_string()))
MapErrParseUrl(r, text) == IF r.ok THEN r ELSE ErrParseUrl(r.why, text)

\* Uri::try_from(&str): Url::parse of the text (no text of the alphabet is a
\* mail address), a failure being ErrorKind::ParseUrl.
UriTryFrom(text) == MapErrParseUrl(UrlParse(text), text)

-----------------------------------------------------------------------------
(* types/uri/relative.rs                                                   *)

\* is_scheme_relative_link
is_scheme_relative_link(text) == StartsWith(TrimAsciiStart(text), <<"/", "/">>)

\* is_root_relative_link
is_root_relative_link(text) ==
    ~is_scheme_relative_link(text) /\ StartsWith(TrimAsciiStart(text), <<"/">>)

-----------------------------------------------------------------------------
(* types/url_mapping.rs: UrlMappings, a list of pairs <<left, right>>.     *)

\* A variant of the closure that only looks for the left URL under the
\* right one.
ConflictingOneWay(pair) ==
    IF pair[1] = pair[2] THEN Some(FALSE)
    ELSE The({ IF a = Panic THEN Panic ELSE Some(a # None) :
               a \in {StrictlyRelativeTo(pair[1], pair[2], FALSE)} })

\* The closure of UrlMappings::new's `find`: Some(the bool it returns), or
\* Panic.
IsConflicting(pair) ==
    IF pair[1] = pair[2] THEN Some(FALSE)
    ELSE The({ IF a = Panic THEN Panic
               ELSE IF a # None THEN Some(TRUE)
               ELSE The({ IF b = Panic THEN Panic ELSE Some(b # None) :
                          b \in {StrictlyRelativeTo(pair[2], pair[1], FALSE)} }) :
               a \in {StrictlyRelativeTo(pair[1], pair[2], FALSE)} })

RECURSIVE FindConflicting(_, _)
\* mappings.iter().find(closure) from the i-th pair on: Some(index), None,
\* or Panic when the closure panics before a pair is found.
FindConflicting(mappings, i) ==
    IF i > Len(mappings) THEN None
    ELSE The({ IF c = Panic THEN Panic
               ELSE IF c[1] THEN Some(i)
               ELSE FindConflicting(mappings, i + 1) :
               c \in {IsConflicting(mappings[i])} })

\* UrlMappings::new: Ok(mappings) or ErrorKind::InvalidBase.
UrlMappingsNew(mappings) ==
    The({ IF conflicting_mapping = Panic
          THEN [ok |-> FALSE, mappings |-> <<>>, err |-> "panic",
                why |-> "!cannot_be_a_base"]
          ELSE IF conflicting_mapping # None
          THEN [ok |-> FALSE, mappings |-> <<>>, err |-> "InvalidBase",
                why |-> "base cannot be parent or child of root-dir"]
          ELSE [ok |-> TRUE, mappings |-> mappings, err |-> "", why |-> ""] :
          conflicting_mapping \in {FindConflicting(mappings, 1)} })

RECURSIVE FindMapOldLast(_, _, _)
FindMapOldLast(mappings, url, i) ==
    IF i < 1 THEN None
    ELSE The({ IF subpath = Panic THEN Panic
               ELSE IF subpath # None THEN Some(<<mappings[i][2], subpath[1]>>)
               ELSE FindMapOldLast(mappings, url, i - 1) :
               subpath \in {StrictlyRelativeTo(url, mappings[i][1], FALSE)} })

RECURSIVE FindMapOld(_, _, _)
FindMapOld(mappings, url, i) ==
    IF i > Len(mappings) THEN None
    ELSE The({ IF subpath = Panic THEN Panic
               ELSE IF subpath # None THEN Some(<<mappings[i][2], subpath[1]>>)
               ELSE FindMapOld(mappings, url, i + 1) :
               subpath \in {StrictlyRelativeTo(url, mappings[i][1], FALSE)} })

\* A variant of map_to_old_url that returns the last matching pair.
MapToOldUrlLast(mappings, url) == FindMapOldLast(mappings, url, Len(mappings))

\* UrlMappings::map_to_old_url: matches the left URLs, returns the right one.
MapToOldUrl(mappings, url) == FindMapOld(mappings, url, 1)

RECURSIVE FindMapNew(_, _, _)
FindMapNew(mappings, url, i) ==
    IF i > Len(mappings) THEN None
    ELSE The({ IF subpath = Panic THEN Panic
               ELSE IF subpath # None THEN Some(<<mappings[i][1], subpath[1]>>)
               ELSE FindMapNew(mappings, url, i + 1) :
               subpath \in {StrictlyRelativeTo(url, mappings[i][2], FALSE)} })

\* UrlMappings::map_to_new_url: matches the right URLs, returns the left one.
MapToNewUrl(mappings, url) == FindMapNew(mappings, url, 1)

-----------------------------------------------------------------------------
(* types/base_info.rs: SourceBaseInfo                                      *)

\* SourceBaseInfo::None
no_info == [kind |-> "None", url |-> NoUrl, path |-> <<>>]

\* SourceBaseInfo::NoRoot(url)
NoRoot(url) == [kind |-> "NoRoot", url |-> url, path |-> <<>>]

\* SourceBaseInfo::Full(origin, path)
full_info(origin, path) == [kind |-> "Full", url |-> origin, path |-> path]

\* SourceBaseInfo::split_url_origin_and_path: Option<(Url, String)>
split_url_origin_and_path(url) ==
    The({ IF ~origin.ok THEN None
          ELSE The({ IF subpath = None THEN None ELSE Some(<<origin.url, subpath[1]>>) :
                     subpath \in {MakeRelative(origin.url, url)} }) :
          origin \in {Join(url, <<"/">>)} })

\* A variant of from_source_url with no base information for a `file:` URL.
from_source_url_remote_only(url) ==
    IF url.scheme = FileScheme THEN no_info
    ELSE The({ IF split = None THEN no_info ELSE full_info(split[1][1], split[1][2]) :
               split \in {split_url_origin_and_path(url)} })

\* SourceBaseInfo::from_source_url
from_source_url(url) ==
    IF url.scheme = FileScheme THEN NoRoot(url)
    ELSE The({ IF split = None THEN no_info ELSE full_info(split[1][1], split[1][2]) :
               split \in {split_url_origin_and_path(url)} })

\* SourceBaseInfo::use_fs_root_as_origin
use_fs_root_as_origin(self) ==
    IF self.kind # "NoRoot" THEN self
    ELSE The({ IF split = None
               THEN \* .expect("splitting up a NoRoot file:// URL should work")
                    [kind |-> "panic", url |-> NoUrl, path |-> <<>>]
               ELSE full_info(split[1][1], split[1][2]) :
               split \in {split_url_origin_and_path(self.url)} })

\* A variant of or_fallback that keeps every self that is not None.
or_fallback_unless_some(self, fallback) == IF self.kind # "None" THEN self ELSE fallback

\* SourceBaseInfo::or_fallback
or_fallback(self, fallback) ==
    IF self.kind = "Full" THEN self
    ELSE IF fallback.kind = "Full" THEN fallback
    ELSE IF self.kind = "NoRoot" THEN self
    ELSE IF fallback.kind = "NoRoot" THEN fallback
    ELSE no_info

\* A variant of is_root_relative without trim_ascii_start.
is_root_relative_untrimmed(text) ==
    StartsWith(text, <<"/">>) /\ ~StartsWith(text, <<"/", "/">>)

\* SourceBaseInfo::is_root_relative
is_root_relative(text) ==
    LET t == TrimAsciiStart(text)
    IN StartsWith(t, <<"/">>) /\ ~StartsWith(t, <<"/", "/">>)

\* A variant of ResolveText that joins the text onto the base before trying
\* it as a URL of its own.
ResolveTextBaseFirst(fake_base_info, text) ==
    IF fake_base_info.kind = "NoRoot" /\ is_root_relative(text)
    THEN ErrInvalidBaseJoin(text)
    ELSE IF fake_base_info.kind \in {"NoRoot", "Full"}
    THEN MapErrParseUrl(
             JoinRooted(fake_base_info.url,
                        IF fake_base_info.kind = "NoRoot" THEN <<text>>
                        ELSE <<fake_base_info.path, text>>), text)
    ELSE ErrParseUrl("RelativeUrlWithoutBase", text)

\* SourceBaseInfo::parse_url_text, lines 158-175: the URL before the root_dir
\* step.
ResolveText(fake_base_info, text) ==
    The({ IF uri.ok THEN uri
          ELSE IF fake_base_info.kind = "NoRoot" /\ is_root_relative(text)
          THEN ErrInvalidBaseJoin(text)
          ELSE IF fake_base_info.kind \in {"NoRoot", "Full"}
          THEN MapErrParseUrl(
                   JoinRooted(fake_base_info.url,
                              IF fake_base_info.kind = "NoRoot" THEN <<text>>
                              ELSE <<fake_base_info.path, text>>), text)
          ELSE uri :
          uri \in {UriTryFrom(text)} })

\* SourceBaseInfo::parse_url_text(self, text, root_dir): root_dir an Option<Url>.
\* With a root_dir, use_fs_root_as_origin is called first (line 154) and its
\* panic is the call's.
parse_url_text(self, text, root_dir) ==
    The({ IF fake_base_info.kind = "panic" THEN Panicked
          ELSE The({ IF ~url.ok THEN url
                     ELSE IF root_dir # None /\ is_root_relative(text)
                             /\ url.url.scheme = FileScheme
                     THEN MapErrParseUrl(
                              Join(root_dir[1], split_url_origin_and_path(url.url)[1][2]),
                              text)
                     ELSE url :
                     url \in { ResolveText(fake_base_info, text) } }) :
          fake_base_info \in { IF root_dir # None THEN use_fs_root_as_origin(self)
                               ELSE self } })

\* The Err a `?` of prepare_source_base_info returns: the error of the failed
\* step, no base and no mappings.
PrepareErr(err) == [ok |-> FALSE, info |-> no_info, mappings |-> <<>>, err |-> err]

\* prepare_source_base_info.  Each argument stands for the Result its
\* to_url() returns inside the function: source is the Result<Option<Url>>
\* of source.to_url(), root_and_base an Option of <<Result of the root's
\* to_url(), Option of the Result of the base's to_url()>>, fallback_base an
\* Option of the Result of the fallback's to_url().  The `?` steps are taken
\* in the order of the code: root, base, fallback, UrlMappings::new, source.
prepare_source_base_info(source, root_and_base, fallback_base) ==
    IF root_and_base # None /\ ~root_and_base[1][1].ok
    THEN PrepareErr(root_and_base[1][1].err)
    ELSE IF root_and_base # None /\ root_and_base[1][2] # None
            /\ ~root_and_base[1][2][1].ok
    THEN PrepareErr(root_and_base[1][2][1].err)
    ELSE IF fallback_base # None /\ ~fallback_base[1].ok
    THEN PrepareErr(fallback_base[1].err)
    ELSE
    The({ IF ~mappings.ok
          THEN PrepareErr(mappings.err)
          ELSE IF ~source.ok
          THEN PrepareErr(source.err)
          ELSE IF source.url # None /\ MapToOldUrl(mappings.mappings, source.url[1]) = Panic
          THEN PrepareErr("panic")
          ELSE [ok |-> TRUE,
                info |-> or_fallback(
                    IF source.url = None THEN no_info
                    ELSE The({ IF old # None THEN full_info(old[1][1], old[1][2])
                               ELSE from_source_url(source.url[1]) :
                               old \in {MapToOldUrl(mappings.mappings, source.url[1])} }),
                    IF fallback_base = None THEN no_info
                    ELSE from_source_url(fallback_base[1].url)),
                mappings |-> mappings.mappings, err |-> ""] :
          mappings \in { UrlMappingsNew(
              IF root_and_base = None THEN <<>>
              ELSE << <<root_and_base[1][1].url,
                        IF root_and_base[1][2] = None THEN root_and_base[1][1].url
                        ELSE root_and_base[1][2][1].url>> >>) } })

\* parse_url_with_base_info, lines 299-303: the mapping rewrite of a resolved
\* URL; Panicked when map_to_new_url panics.
RewriteUrl(mappings, url) ==
    The({ IF joined = Panicked THEN Panicked
          ELSE IF joined.ok THEN joined.url ELSE url :
          joined \in { The({ IF new = Panic THEN Panicked
                             ELSE IF new = None THEN ParseError("")
                             ELSE Join(new[1][1], new[1][2]) :
                             new \in {MapToNewUrl(mappings, url)} }) } })

\* parse_url_with_base_info
parse_url_with_base_info(base_info, mappings, text) ==
    The({ IF ~url.ok THEN url
          ELSE The({ IF rewritten = Panicked THEN Panicked
                     ELSE Ok(IF rewritten.scheme = FileScheme THEN PopIfEmpty(rewritten)
                             ELSE rewritten) :
                     rewritten \in {RewriteUrl(mappings, url.url)} }) :
          url \in {parse_url_text(base_info, text, None)} })

-----------------------------------------------------------------------------
(* lychee-bin/src/merger_macro.rs: make_merger! and the ConfigMerger it    *)
(* generates.  The macro expands to the same expression for every field    *)
(* of the enum (lines 83-98); three of the fields of ConfigField stand for *)
(* all of them.  A Config is a function from the field names to values.    *)

\* Fields of ConfigField (lines 128-188).
ConfigFields == { "accept", "header", "max_concurrency" }

\* A merger with a join function for max_concurrency (the commented-out
\* line 195).
JoinedFieldsDraft == { "max_concurrency" }

\* The fields declared with `-> type`, which get a join function in the
\* merger struct (lines 17, 65): none in ConfigField, and `ConfigMerger {}`.
JoinedFields == {}

\* A join function: `&|a, b| a + b`.
JoinValues(a, b) == a + b

\* ConfigMerger::merge(base, overrides, field_is_defined); the predicate is
\* the set of the fields it holds for.
ConfigMergerMerge(base, overrides, defined) ==
    [f \in ConfigFields |->
        IF f \in defined
        THEN IF f \in JoinedFields THEN JoinValues(base[f], overrides[f])
             ELSE overrides[f]
        ELSE base[f]]

\* merge(x, other, defined_set)
merge(x, other, defined_set) == ConfigMergerMerge(x, other, defined_set)

-----------------------------------------------------------------------------
(* Inputs.  URLs are written as the records Url::parse returns for them.   *)

MaxSubpaths == 2

MaxDepth == 2

\* The record Url::parse returns for "file://" + "/" + segments joined by
\* "/": a `file:` path keeps no leading empty segment.
FileUrl(path) == MkUrl(FileScheme, None, TrimEmptyFirst(path), None, None)

HttpsUrl(host, path) == MkUrl(HttpsScheme, Some(host), path, None, None)

\* `base` of join_rooted.
JoinBases ==
    { FileUrl(<<<<"a">>, <<"b">>, <<>>>>),              \* file:///a/b/
      FileUrl(<<<<"a">>, <<"b">>, <<"c">>>>),           \* file:///a/b/c
      FileUrl(<<<<>>>>),                                \* file:///
      HttpsUrl(<<"h">>, <<<<"b">>, <<>>>>),             \* https://h/b/
      MkUrl(HttpsScheme, Some(<<"h">>), <<<<"x">>>>,    \* https://h/x?q#f
            Some(<<"q">>), Some(<<"f">>)) }

\* Subpaths of join_rooted.
JoinTexts ==
    { <<>>,                                             \* ""
      <<".">>,                                          \* "."
      <<".", ".">>,                                     \* ".."
      <<".", ".", "/", ".", ".">>,                      \* "../.."
      <<"a">>,                                          \* "a"
      <<"a", "/">>,                                     \* "a/"
      Tail(SecretPath),                                 \* ".asdjifjdsaiofjdoisa"
      <<".", "/", "x", ":", "y">>,                      \* "./x:y"
      <<"/">>,                                          \* "/"
      <<"/", ".", ".">>,                                \* "/.."
      <<"/", ".", ".", "/", ".", ".">>,                 \* "/../.."
      <<"/", ".", ".", "/", ".", ".", "/", "a">>,       \* "/../../a"
      <<"/", "x", ":", "y">>,                           \* "/x:y"
      <<"/", "/", "g", "/", "a">>,                      \* "//g/a"
      <<"/", "/", "l", "o", "c", "a", "l", "h", "o", "s", "t", "/", "x">>,  \* "//localhost/x"
      <<"/", "/", "/", "a">>,                           \* "///a"
      <<"?", "q">>,                                     \* "?q"
      <<".", "?", "q">>,                                \* ".?q"
      <<"#", "f">>,                                     \* "#f"
      <<"x", ":", "y">>,                                \* "x:y"
      <<"h", "t", "t", "p", "s", ":", "/", "/", "g", "/", "a">> }  \* "https://g/a"

\* Path segments and paths of the URLs given to strictly_relative_to.
RelSegs == { <<>>, <<"a">>, <<"x", ":", "y">> }

RelPaths == UNION { [1..n -> RelSegs] : n \in 1..MaxDepth }

\* A URL without special scheme, with a host and an empty path (x://g), and
\* the URL with the given path on the same host.
NoPathUrl == MkUrl(<<"x">>, Some(<<"g">>), <<>>, None, None)

XUrl(path) == MkUrl(<<"x">>, Some(<<"g">>), path, None, None)

\* `self` of strictly_relative_to.
RelSelfs ==
    { MkUrl(HttpsScheme, Some(<<"h">>), p, q, f) :
        p \in RelPaths, q \in { None, Some(<<"q">>) }, f \in { None, Some(<<"f">>) } }
    \cup { HttpsUrl(<<"g">>, <<<<"a">>>>),              \* https://g/a
           MkUrl(FileScheme, Some(<<"h">>), <<<<"a">>>>, None, None),  \* file://h/a
           MkOpaque(<<"x">>, <<"y">>, None, None),      \* x:y
           NoPathUrl,                                   \* x://g
           XUrl(<<<<"a">>>>) }                          \* x://g/a

\* `base` of strictly_relative_to.
RelBases ==
    { MkUrl(HttpsScheme, Some(<<"h">>), p, q, None) : p \in RelPaths, q \in { None, Some(<<"q">>) } }
    \cup { MkOpaque(<<"x">>, <<"y">>, None, None),      \* x:y
           NoPathUrl,                                   \* x://g
           XUrl(<<<<"a">>, <<"a">>>>) }                 \* x://g/a/a

\* source.to_url()
Sources ==
    { None,                                             \* stdin
      Some(FileUrl(<<<<"r">>, <<"s">>>>)),              \* file:///r/s
      Some(FileUrl(<<<<"r">>, <<"d">>, <<"s">>>>)),     \* file:///r/d/s
      Some(FileUrl(<<<<"o">>, <<"s">>>>)),              \* file:///o/s
      Some(FileUrl(<<<<"r">>, <<"x", ":", "y">>>>)),    \* file:///r/x:y
      Some(FileUrl(<<<<"r">>, Tail(SecretPath)>>)),    \* file:///r/.asdjifjdsaiofjdoisa
      Some(HttpsUrl(<<"h">>, <<<<"p">>, <<"s">>>>)),    \* https://h/p/s
      Some(MkOpaque(<<"x">>, <<"y">>, None, None)) }    \* x:y

RootDir == FileUrl(<<<<"r">>, <<>>>>)                   \* /r as file:///r/

\* root_and_base
RootsAndBases ==
    { None,
      Some(<<RootDir, None>>),
      Some(<<RootDir, Some(HttpsUrl(<<"h">>, <<<<>>>>))>>),            \* https://h/
      Some(<<RootDir, Some(HttpsUrl(<<"h">>, <<<<"p">>, <<>>>>))>>),   \* https://h/p/
      Some(<<RootDir, Some(FileUrl(<<<<"r">>, <<"x">>, <<>>>>))>>),    \* file:///r/x/
      Some(<<RootDir, Some(HttpsUrl(<<"h">>, <<<<"p">>, <<"t">>>>))>>),  \* https://h/p/t
      Some(<<RootDir, Some(FileUrl(<<<<"o">>, <<"t">>>>))>>),          \* file:///o/t
      \* the root dir is the source file /r/s itself, as a directory URL
      \* (file:///r/s/) and as a file URL (file:///r/s)
      Some(<<FileUrl(<<<<"r">>, <<"s">>, <<>>>>), Some(HttpsUrl(<<"h">>, <<<<"p">>, <<"t">>>>))>>),
      Some(<<FileUrl(<<<<"r">>, <<"s">>>>), Some(HttpsUrl(<<"h">>, <<<<"p">>, <<"t">>>>))>>) }

\* root_dir of parse_url_text
RootDirs == { RootDir }

\* The Result of to_url() for the argument `arg` that converts to `url`
\* unless it is one of the failing arguments; the Err names the argument.
Converted(arg, url, failing) ==
    IF arg \in failing
    THEN [ok |-> FALSE, url |-> NoUrl, err |-> arg, why |-> "to_url", text |-> <<>>]
    ELSE Ok(url)

\* The root_and_base argument of a call, for the URLs the root and the base
\* convert to and the set of failing conversions.
RootAndBaseArg(root_and_base, failing) ==
    IF root_and_base = None THEN None
    ELSE Some(<<Converted("root", root_and_base[1][1], failing),
                IF root_and_base[1][2] = None THEN None
                ELSE Some(Converted("base", root_and_base[1][2][1], failing))>>)

\* fallback_base
Fallbacks ==
    { None,
      Some(HttpsUrl(<<"k">>, <<<<>>>>)),                \* https://k/
      Some(FileUrl(<<<<"k">>, <<>>>>)) }                \* /k as file:///k/

\* Link texts.
LinkTexts ==
    { <<>>,                                             \* ""
      <<"a">>,                                          \* "a"
      <<".", ".", "/", "a">>,                           \* "../a"
      <<".", "/", "x", ":", "y">>,                      \* "./x:y"
      <<"#", "f">>,                                     \* "#f"
      <<"?", "q">>,                                     \* "?q"
      <<"/">>,                                          \* "/"
      <<"/", "a">>,                                     \* "/a"
      <<" ", "/", "a">>,                                \* " /a"
      <<"/", "a", "/">>,                                \* "/a/"
      <<"/", ".", ".">>,                                \* "/.."
      <<"/", ".", ".", "/", ".", ".", "/", "a">>,       \* "/../../a"
      <<"/", "x", ":", "y">>,                           \* "/x:y"
      <<"/", "p", "/", "a", "?", "q", "#", "f">>,       \* "/p/a?q#f"
      <<"/", "/", "g", "/", "a">>,                      \* "//g/a"
      <<"/", "/", "l", "o", "c", "a", "l", "h", "o", "s", "t", "/", "a">>,  \* "//localhost/a"
      <<"x", ":", "y">>,                                \* "x:y"
      <<"h", "t", "t", "p", "s", ":", "/", "/", "h", "/", "a">>,            \* "https://h/a"
      <<"h", "t", "t", "p", "s", ":", "/", "/", "h", "/", "p", "/">>,       \* "https://h/p/"
      <<"f", "i", "l", "e", ":", "/", "/", "/", "r", "/", "d", "/", "a">>,  \* "file:///r/d/a"
      <<"f", "i", "l", "e", ":", "/", "/", "/", "o", "/">>,                 \* "file:///o/"
      <<"f", "i", "l", "e", ":", "/", "/", "/", "o", "/", "/">>,            \* "file:///o//"
      <<"f", "i", "l", "e", ":", "/", "/", "/">> }                          \* "file:///"

MaxPairs == 2

\* The two sides of the pairs given to UrlMappings::new.
MapSides ==
    { RootDir,                                          \* file:///r/
      HttpsUrl(<<"h">>, <<<<>>>>),                      \* https://h/
      HttpsUrl(<<"g">>, <<<<"p">>>>),                   \* https://g/p
      HttpsUrl(<<"g">>, <<<<"p">>, <<"a">>>>) }         \* https://g/p/a

\* The pairs: every two sides, and two pairs with a side that has no path.
MapPairs ==
    (MapSides \X MapSides)
    \cup { <<RootDir, NoPathUrl>>,                      \* (file:///r/, x://g)
           <<NoPathUrl, XUrl(<<<<"a">>>>)>> }           \* (x://g, x://g/a)

\* `mappings` of UrlMappings::new.
MapLists == UNION { [1..n -> MapPairs] : n \in 0..MaxPairs }

\* URLs looked up with map_to_new_url and map_to_old_url.
MapUrls ==
    { HttpsUrl(<<"h">>, <<<<"x", ":", "y">>>>),         \* https://h/x:y
      HttpsUrl(<<"h">>, <<<<"p">>, <<"a">>>>),          \* https://h/p/a
      HttpsUrl(<<"g">>, <<<<"p">>>>),                   \* https://g/p
      MkUrl(HttpsScheme, Some(<<"g">>), <<<<>>>>, Some(<<"q">>), None),  \* https://g/?q
      RootDir,                                          \* file:///r/
      MkUrl(FileScheme, None, <<<<"r">>, <<"x">>, <<"a">>>>, None, Some(<<"f">>)),  \* file:///r/x/a#f
      FileUrl(<<<<"o">>, <<"a">>>>),                    \* file:///o/a
      XUrl(<<<<"a">>>>) }                               \* x://g/a

\* `url` of from_source_url.
SourceUrls == RelSelfs \cup { FileUrl(p) : p \in RelPaths }

\* Values of the fields of a Config, and the Configs given to merge.
ConfigValues == { 0, 1 }

Configs == [ConfigFields -> ConfigValues]

\* `fallback` of or_fallback.
FallbackInfos ==
    { no_info } \cup { from_source_url(fallback[1]) : fallback \in Fallbacks \ {None} }

-----------------------------------------------------------------------------
(* join_rooted as a state machine: the loop over the subpaths.             *)

JoinIdle ==
    /\ jBase = NoUrl /\ jSubs = <<>> /\ jUrl = Ok(NoUrl) /\ jPlain = Ok(NoUrl)
    /\ jPc = "idle" /\ jOut = Ok(NoUrl)

RelIdle ==
    /\ rSelf = NoUrl /\ rBase = NoUrl /\ rUp = FALSE
    /\ rPc = "idle" /\ rOut = None /\ rJoin = Ok(NoUrl)

ResolveIdle ==
    /\ sSource = None /\ sRoot = None /\ sFallback = None /\ sFail = {}
    /\ sPc = "idle"
    /\ sInfo = no_info /\ sMappings = <<>> /\ sText = <<>>
    /\ sUrl = Ok(NoUrl) /\ sOut = Ok(NoUrl)
    /\ sDir = None /\ sFsUrl = Ok(NoUrl) /\ sRooted = Ok(NoUrl)

MapIdle ==
    /\ mList = <<>> /\ mPc = "idle" /\ mRes = UrlMappingsNew(<<>>)
    /\ mUrl = NoUrl /\ mDir = "" /\ mFound = None /\ mThere = Ok(NoUrl)
    /\ mBack = None /\ mBackUrl = Ok(NoUrl)

MergeIdle ==
    /\ cBase = [f \in ConfigFields |-> 0] /\ cOverrides = [f \in ConfigFields |-> 0]
    /\ cDefined = {} /\ cPc = "idle" /\ cOut = [f \in ConfigFields |-> 0]

FromIdle ==
    /\ fUrl = NoUrl /\ fPc = "idle" /\ fInfo = no_info /\ fJoin = Ok(NoUrl)
    /\ fFallback = no_info /\ fOut = no_info

\* join_rooted, lines 33-43: the call, up to the loop.
InitJoin ==
    /\ jBase \in JoinBases
    /\ jSubs = <<>>
    /\ jUrl = JoinStart(jBase)
    /\ jPlain = Ok(jBase)
    /\ jPc = "loop"
    /\ jOut = Ok(NoUrl)
    /\ RelIdle /\ ResolveIdle /\ MapIdle /\ FromIdle /\ MergeIdle

\* join_rooted, line 45: one iteration, `url = url.join(subpath)`.
JoinStep ==
    /\ jPc = "loop" /\ jUrl.ok /\ Len(jSubs) < MaxSubpaths
    /\ \E subpath \in JoinTexts :
        /\ jSubs' = Append(jSubs, subpath)
        /\ jUrl' = Join(jUrl.url, subpath)
        /\ jPlain' = IF jPlain.ok THEN Join(jPlain.url, subpath) ELSE jPlain
    /\ UNCHANGED <<jBase, jPc, jOut, rvars, svars, mvars, fvars, cvars>>

\* join_rooted, lines 36-37 and 45: a `?` returns the parse error.
JoinFail ==
    /\ jPc = "loop" /\ ~jUrl.ok
    /\ jPc' = "done"
    /\ jOut' = jUrl
    /\ UNCHANGED <<jBase, jSubs, jUrl, jPlain, rvars, svars, mvars, fvars, cvars>>

\* join_rooted, lines 48-54: the subpaths are exhausted.
JoinReturn ==
    /\ jPc = "loop" /\ jUrl.ok
    /\ jPc' = "done"
    /\ jOut' = JoinFinish(jBase, jUrl.url)
    /\ UNCHANGED <<jBase, jSubs, jUrl, jPlain, rvars, svars, mvars, fvars, cvars>>

NextJoin == JoinStep \/ JoinFail \/ JoinReturn

SpecJoin == InitJoin /\ [][NextJoin]_vars

-----------------------------------------------------------------------------
(* strictly_relative_to, and the join of the returned path.                *)

InitRel ==
    /\ rSelf \in RelSelfs
    /\ rBase \in RelBases
    /\ rUp \in BOOLEAN
    /\ rPc = "call"
    /\ rOut = None
    /\ rJoin = Ok(NoUrl)
    /\ JoinIdle /\ ResolveIdle /\ MapIdle /\ FromIdle /\ MergeIdle

\* url.strictly_relative_to(base, traverse_up), then base.join(path) as in
\* join_rooted line 52 and parse_url_with_base_info line 300.
Relativize ==
    /\ rPc = "call"
    /\ rPc' = "done"
    /\ rOut' = StrictlyRelativeTo(rSelf, rBase, rUp)
    /\ rJoin' = IF rOut' = Panic THEN Panicked
                ELSE IF rOut' # None THEN Join(rBase, rOut'[1]) ELSE Ok(NoUrl)
    /\ UNCHANGED <<rSelf, rBase, rUp, jvars, svars, mvars, fvars, cvars>>

NextRel == Relativize

SpecRel == InitRel /\ [][NextRel]_vars

-----------------------------------------------------------------------------
(* The orchestrator: one prepare_source_base_info per source, then one     *)
(* parse_url_with_base_info per link text.                                 *)

InitResolve ==
    /\ sSource \in Sources
    /\ sRoot \in RootsAndBases
    /\ sFallback \in Fallbacks
    /\ sFail \in SUBSET { "root", "base", "fallback", "source" }
    /\ "root" \in sFail => sRoot # None
    /\ "base" \in sFail => (sRoot # None /\ sRoot[1][2] # None)
    /\ "fallback" \in sFail => sFallback # None
    /\ sPc = "source"
    /\ sInfo = no_info /\ sMappings = <<>> /\ sText = <<>>
    /\ sUrl = Ok(NoUrl) /\ sOut = Ok(NoUrl)
    /\ sDir = None /\ sFsUrl = Ok(NoUrl) /\ sRooted = Ok(NoUrl)
    /\ JoinIdle /\ RelIdle /\ MapIdle /\ FromIdle /\ MergeIdle

\* prepare_source_base_info(source, root_and_base, fallback_base)
Prepare ==
    /\ sPc = "source"
    /\ \E r \in {prepare_source_base_info(
                    Converted("source", sSource, sFail),
                    RootAndBaseArg(sRoot, sFail),
                    IF sFallback = None THEN None
                    ELSE Some(Converted("fallback", sFallback[1], sFail)))} :
          /\ sPc' = IF r.ok THEN "prepared" ELSE "failed"
          /\ sInfo' = r.info
          /\ sMappings' = r.mappings
    /\ UNCHANGED <<sSource, sRoot, sFallback, sFail, sText, sUrl, sOut, sDir, sFsUrl, sRooted>>
    /\ UNCHANGED <<jvars, rvars, mvars, fvars, cvars>>

\* parse_url_with_base_info(base_info, mappings, text); sUrl is its line 297.
ParseLink ==
    /\ sPc \in {"prepared", "parsed"}
    /\ \E text \in LinkTexts :
        /\ sText' = text
        /\ sUrl' = parse_url_text(sInfo, text, None)
        /\ sOut' = parse_url_with_base_info(sInfo, sMappings, text)
    /\ sPc' = "parsed"
    /\ sDir' = None /\ sFsUrl' = Ok(NoUrl) /\ sRooted' = Ok(NoUrl)
    /\ UNCHANGED <<sSource, sRoot, sFallback, sFail, sInfo, sMappings, jvars, rvars, mvars, fvars, cvars>>

\* base_info.parse_url_text(text, Some(root_dir)); sFsUrl is the `url` of
\* lines 158-175, resolved with the filesystem root as origin.
ParseTextRooted ==
    /\ sPc = "prepared"
    /\ \E text \in LinkTexts, root_dir \in RootDirs :
        /\ sText' = text
        /\ sDir' = Some(root_dir)
        /\ sFsUrl' = The({ IF fake_base_info.kind = "panic" THEN Panicked
                            ELSE ResolveText(fake_base_info, text) :
                            fake_base_info \in {use_fs_root_as_origin(sInfo)} })
        /\ sRooted' = parse_url_text(sInfo, text, Some(root_dir))
    /\ sPc' = "text"
    /\ sUrl' = Ok(NoUrl) /\ sOut' = Ok(NoUrl)
    /\ UNCHANGED <<sSource, sRoot, sFallback, sFail, sInfo, sMappings, jvars, rvars, mvars, fvars, cvars>>

NextResolve == Prepare \/ ParseLink \/ ParseTextRooted

SpecResolve == InitResolve /\ [][NextResolve]_vars

-----------------------------------------------------------------------------
(* UrlMappings: construction, then lookups in either direction, each       *)
(* followed by the join of the found URL with the subpath and the lookup   *)
(* of the joined URL in the other direction.                               *)

InitMap ==
    /\ mList \in MapLists
    /\ mPc = "new"
    /\ mRes = UrlMappingsNew(<<>>)
    /\ mUrl = NoUrl /\ mDir = "" /\ mFound = None /\ mThere = Ok(NoUrl)
    /\ mBack = None /\ mBackUrl = Ok(NoUrl)
    /\ JoinIdle /\ RelIdle /\ ResolveIdle /\ FromIdle /\ MergeIdle

\* found.0.join(found.1), as in parse_url_with_base_info line 300.
JoinFound(found) ==
    IF found = Panic THEN Panicked
    ELSE IF found = None THEN Ok(NoUrl) ELSE Join(found[1][1], found[1][2])

\* UrlMappings::new(mappings)
NewMappings ==
    /\ mPc = "new"
    /\ mRes' = UrlMappingsNew(mList)
    /\ mPc' = IF mRes'.ok THEN "built"
              ELSE IF mRes'.err = "panic" THEN "panicked" ELSE "failed"
    /\ UNCHANGED <<mList, mUrl, mDir, mFound, mThere, mBack, mBackUrl, jvars, rvars, svars, fvars, cvars>>

\* mappings.map_to_new_url(url), then the join of the result.
LookupNew ==
    /\ mPc \in {"built", "found", "back"}
    /\ \E url \in MapUrls :
        /\ mUrl' = url
        /\ mFound' = MapToNewUrl(mRes.mappings, url)
    /\ mThere' = JoinFound(mFound')
    /\ mDir' = "new"
    /\ mPc' = IF mFound' = Panic THEN "panicked" ELSE "found"
    /\ mBack' = None /\ mBackUrl' = Ok(NoUrl)
    /\ UNCHANGED <<mList, mRes, jvars, rvars, svars, fvars, cvars>>

\* mappings.map_to_old_url(url), then the join of the result.
LookupOld ==
    /\ mPc \in {"built", "found", "back"}
    /\ \E url \in MapUrls :
        /\ mUrl' = url
        /\ mFound' = MapToOldUrl(mRes.mappings, url)
    /\ mThere' = JoinFound(mFound')
    /\ mDir' = "old"
    /\ mPc' = IF mFound' = Panic THEN "panicked" ELSE "found"
    /\ mBack' = None /\ mBackUrl' = Ok(NoUrl)
    /\ UNCHANGED <<mList, mRes, jvars, rvars, svars, fvars, cvars>>

\* The joined URL looked up in the other direction, and joined again.
LookupBack ==
    /\ mPc = "found" /\ mFound # None /\ mThere.ok
    /\ mBack' = IF mDir = "new" THEN MapToOldUrl(mRes.mappings, mThere.url)
                ELSE MapToNewUrl(mRes.mappings, mThere.url)
    /\ mBackUrl' = JoinFound(mBack')
    /\ mPc' = IF mBack' = Panic THEN "panicked" ELSE "back"
    /\ UNCHANGED <<mList, mRes, mUrl, mDir, mFound, mThere, jvars, rvars, svars, fvars, cvars>>

NextMap == NewMappings \/ LookupNew \/ LookupOld \/ LookupBack

SpecMap == InitMap /\ [][NextMap]_vars

-----------------------------------------------------------------------------
(* SourceBaseInfo::from_source_url, and the join of the origin and path of *)
(* a returned Full.                                                        *)

InitFrom ==
    /\ fUrl \in SourceUrls
    /\ fPc = "call"
    /\ fInfo = no_info
    /\ fJoin = Ok(NoUrl)
    /\ fFallback = no_info /\ fOut = no_info
    /\ JoinIdle /\ RelIdle /\ ResolveIdle /\ MapIdle /\ MergeIdle

\* SourceBaseInfo::from_source_url(url)
FromSourceUrl ==
    /\ fPc = "call"
    /\ fPc' = "done"
    /\ fInfo' = from_source_url(fUrl)
    /\ fJoin' = IF fInfo'.kind = "Full" THEN Join(fInfo'.url, fInfo'.path) ELSE Ok(NoUrl)
    /\ UNCHANGED <<fUrl, fFallback, fOut, jvars, rvars, svars, mvars, cvars>>

\* base_info.or_fallback(fallback_base), as in prepare_source_base_info
\* line 280, the fallback being from_source_url of a fallback URL or None.
OrFallback ==
    /\ fPc = "done"
    /\ fPc' = "merged"
    /\ \E fallback \in FallbackInfos :
        /\ fFallback' = fallback
        /\ fOut' = or_fallback(fInfo, fallback)
    /\ UNCHANGED <<fUrl, fInfo, fJoin, jvars, rvars, svars, mvars, cvars>>

NextFrom == FromSourceUrl \/ OrFallback

SpecFrom == InitFrom /\ [][NextFrom]_vars

-----------------------------------------------------------------------------
(* merge of two Configs.                                                   *)

InitMerge ==
    /\ cBase \in Configs
    /\ cOverrides \in Configs
    /\ cDefined \in SUBSET ConfigFields
    /\ cPc = "call"
    /\ cOut = [f \in ConfigFields |-> 0]
    /\ JoinIdle /\ RelIdle /\ ResolveIdle /\ MapIdle /\ FromIdle

\* merge(x, other, defined_set)
Merge ==
    /\ cPc = "call"
    /\ cPc' = "done"
    /\ cOut' = merge(cBase, cOverrides, cDefined)
    /\ UNCHANGED <<cBase, cOverrides, cDefined, jvars, rvars, svars, mvars, fvars>>

NextMerge == Merge

SpecMerge == InitMerge /\ [][NextMerge]_vars

\* The families side by side.
Init == InitJoin \/ InitRel \/ InitResolve \/ InitMap \/ InitFrom \/ InitMerge

Next == NextJoin \/ NextRel \/ NextResolve \/ NextMap \/ NextFrom \/ NextMerge

Spec == Init /\ [][Next]_vars

-----------------------------------------------------------------------------
(* Properties.                                                             *)

\* p is a prefix of the sequence s.
IsPrefix(p, s) == Len(p) <= Len(s) /\ SubSeq(s, 1, Len(p)) = p

\* The URL u lies inside the directory of b: same scheme and authority, and
\* b's path without its final segment is a prefix of u's path.
InsideDir(u, b) ==
    /\ ~u.opaque /\ ~b.opaque
    /\ u.scheme = b.scheme /\ u.host = b.host
    /\ IsPrefix(Front(b.path), u.path)

\* A relative subpath: text that is not a URL by itself and is not
\* scheme-relative ("a", ".", "../..", "/a", "./x:y", "?q", "#f").
RelativeSubpath(text) == ~UrlParse(text).ok /\ ~is_scheme_relative_link(text)

\* The joined URL left the scheme or the authority of the fake base.
LeftFakeBase(u) == u.opaque \/ u.scheme # FileScheme \/ u.host # Some(SecretHost)

\* What parse_url_with_base_info's last step does to a URL (lines 305-311).
Normalized(u) == IF u.scheme = FileScheme THEN PopIfEmpty(u) ELSE u

\* The URL u, inside the directory of `from`, moved to the same place inside
\* the directory of `to`; query and fragment are kept.
Rebased(u, from, to) ==
    [u EXCEPT !.scheme = to.scheme, !.host = to.host,
              !.path = Front(to.path) \o DropFirst(u.path, Len(Front(from.path)))]

\* The root URL and the base URL of the declared pair (the base defaults to
\* the root).
DeclaredRoot == sRoot[1][1]

DeclaredBase == IF sRoot[1][2] = None THEN sRoot[1][1] ELSE sRoot[1][2][1]

\* C1 (as claimed): for a file: base and relative subpaths, join_rooted
\* returns a URL whose path lies inside the base's own directory.
C1_Confinement ==
    (/\ jPc = "done"
     /\ jBase.scheme = FileScheme
     /\ \A i \in 1..Len(jSubs) : RelativeSubpath(jSubs[i]))
    => (jOut.ok /\ InsideDir(jOut.url, jBase))

\* C2 (as claimed): for a file: base, when the joined URL cannot be made
\* relative to the fake base, the empty path is joined onto the real base.
C2_RejoinedOntoBase ==
    (/\ jPc = "done" /\ jBase.scheme = FileScheme
     /\ jUrl.ok /\ LeftFakeBase(jUrl.url))
    => jOut = Join(jBase, <<>>)

\* C2 (amended): for a file: base, when the joined URL has left the scheme or
\* the authority of the fake base (an absolute or scheme-relative subpath),
\* join_rooted returns the joined URL unchanged.
C2_EscapedUrlReturned ==
    (/\ jPc = "done" /\ jBase.scheme = FileScheme
     /\ jUrl.ok /\ LeftFakeBase(jUrl.url))
    => jOut = jUrl

\* file:///a/b/ joined with "//g/a" has returned file://g/a.
C2_Witness ==
    /\ jPc = "done"
    /\ jBase = FileUrl(<<<<"a">>, <<"b">>, <<>>>>)
    /\ jSubs = << <<"/", "/", "g", "/", "a">> >>
    /\ jOut = Ok(MkUrl(FileScheme, Some(<<"g">>), <<<<"a">>>>, None, None))

\* C3: with a file: source, no declared root and no fallback base, every
\* root-relative link text is rejected with InvalidBaseJoin(text).
C3_RootRelativeRejected ==
    (/\ sPc = "parsed"
     /\ sSource # None /\ sSource[1].scheme = FileScheme
     /\ sRoot = None /\ sFallback = None
     /\ is_root_relative_link(sText))
    => (/\ sUrl = ErrInvalidBaseJoin(sText)
        /\ sOut = ErrInvalidBaseJoin(sText))

\* The source file:///r/s alone has rejected " /a".
C3_Witness ==
    /\ sPc = "parsed"
    /\ sSource = Some(FileUrl(<<<<"r">>, <<"s">>>>))
    /\ sRoot = None /\ sFallback = None
    /\ sText = <<" ", "/", "a">>
    /\ sOut.err = "InvalidBaseJoin"

\* C4 (as claimed): for a file: source under the declared root, every
\* root-relative link text is accepted and resolves to a URL under the root.
C4_RootRelativeUnderRoot ==
    (/\ sPc = "parsed"
     /\ sSource # None /\ sRoot # None
     /\ InsideDir(sSource[1], DeclaredRoot)
     /\ is_root_relative_link(sText))
    => (sOut.ok /\ InsideDir(sOut.url, DeclaredRoot))

\* C5 (as claimed): without any base, root-relative text fails with
\* InvalidBaseJoin and other relative text with the original parse error.
C5_NoBaseErrors ==
    (sPc = "parsed" /\ sInfo.kind = "None" /\ ~UriTryFrom(sText).ok)
    => IF is_root_relative_link(sText)
       THEN sUrl = ErrInvalidBaseJoin(sText)
       ELSE sUrl = UriTryFrom(sText)

\* C6 (as claimed): whenever strictly_relative_to returns a path, joining it
\* onto the base succeeds and gives the URL back.
C6_InverseLaw ==
    (rPc = "done" /\ IsSome(rOut)) => (rJoin.ok /\ rJoin.url = rSelf)

\* C7: without upward traversal, strictly_relative_to returns None when the
\* URLs differ in scheme or authority, when one cannot be a base, or when a
\* directory segment of the base is left unmatched; and a returned path
\* never starts with a ".." segment.
C7_DescendantOnly ==
    (rPc = "done" /\ ~rUp)
    => /\ (\/ rSelf.opaque \/ rBase.opaque
           \/ rSelf.scheme # rBase.scheme
           \/ rSelf.host # rBase.host
           \/ ~IsPrefix(Front(rBase.path), Front(rSelf.path)))
          => rOut = None
       /\ IsSome(rOut) => SplitOn(BeforeQuery(rOut[1]), "/")[1] # DotDot

\* https://h/ against the base https://h/a/x:y has given None.
C7_Witness ==
    /\ rPc = "done" /\ ~rUp
    /\ rSelf = HttpsUrl(<<"h">>, <<<<>>>>)
    /\ rBase = HttpsUrl(<<"h">>, <<<<"a">>, <<"x", ":", "y">>>>)
    /\ rOut = None

\* C8: for a base that is not a file: URL, join_rooted gives what the plain
\* sequence of joins gives, the parse error of a failing join included.
C8_PlainJoin ==
    (jPc = "done" /\ jBase.scheme # FileScheme) => jOut = jPlain

\* https://h/b/ joined with "/../.." has returned https://h/.
C8_Witness ==
    /\ jPc = "done"
    /\ jBase = HttpsUrl(<<"h">>, <<<<"b">>, <<>>>>)
    /\ jSubs = << <<"/", ".", ".", "/", ".", ".">> >>
    /\ jOut = Ok(HttpsUrl(<<"h">>, <<<<>>>>))

\* C9 (as claimed): a resolved URL under the declared base is returned as
\* the same subpath, query and fragment under the declared root; any other
\* resolved URL is returned without rewrite.
C9_RewrittenToRoot ==
    (sPc = "parsed" /\ sUrl.ok /\ sRoot # None)
    => IF InsideDir(sUrl.url, DeclaredBase)
       THEN sOut = Ok(Normalized(Rebased(sUrl.url, DeclaredBase, DeclaredRoot)))
       ELSE sOut = Ok(Normalized(sUrl.url))

\* C10 (as claimed): a resolved URL under the declared root is returned as
\* the same subpath under the declared base.
C10_RewrittenToBase ==
    (/\ sPc = "parsed" /\ sUrl.ok /\ sRoot # None
     /\ InsideDir(sUrl.url, DeclaredRoot))
    => sOut = Ok(Normalized(Rebased(sUrl.url, DeclaredRoot, DeclaredBase)))

-----------------------------------------------------------------------------
(* Fallback base, bare file: sources, mappings.                            *)

\* The base applied by prepare_source_base_info is the fallback's.
FallbackApplied == sFallback # None /\ sInfo = from_source_url(sFallback[1])

\* C11: whenever the fallback base is the one applied, root-relative link
\* text is accepted and resolved under the fallback URL, for a fallback of
\* any scheme (`file:` included); it never fails with InvalidBaseJoin.
C11_FallbackWellFounded ==
    (sPc = "parsed" /\ FallbackApplied /\ is_root_relative_link(sText))
    => (sUrl.ok /\ InsideDir(sUrl.url, sFallback[1]))

\* A `file:` source with no declared root and no fallback base.
BareFileSource ==
    /\ sSource # None /\ sSource[1].scheme = FileScheme
    /\ sRoot = None /\ sFallback = None

\* Relative link text that is neither root-relative nor scheme-relative.
LocallyRelative(text) == RelativeSubpath(text) /\ ~is_root_relative_link(text)

\* join_rooted(origin, [subpath, text]) for the origin and subpath of url.
FsTraversal(url, text) ==
    The({ IF fake_base_info.kind = "panic" THEN Panicked
          ELSE JoinRooted(fake_base_info.url, <<fake_base_info.path, text>>) :
          fake_base_info \in {use_fs_root_as_origin(NoRoot(url))} })

\* C12: for a bare `file:` source, locally-relative link text resolves by
\* filesystem traversal from the source URL: to the URL that join_rooted
\* gives for the filesystem root as origin with the source's path and the
\* text as subpaths (`..` climbs out of the source's directory).
C12_FilesystemTraversal ==
    (sPc = "parsed" /\ BareFileSource /\ LocallyRelative(sText))
    => sUrl = FsTraversal(sSource[1], sText)

\* Same scheme and authority, neither URL cannot-be-a-base.
SameSite(u, v) == ~u.opaque /\ ~v.opaque /\ u.scheme = v.scheme /\ u.host = v.host

\* The path of v as a prefix: without the empty last segment of a directory.
PathPrefix(v) == IF v.path # <<>> /\ Last(v.path) = <<>> THEN Front(v.path) ELSE v.path

\* u is a strict path-descendant of v (v's path is a strict prefix of u's).
StrictDescendant(u, v) ==
    /\ SameSite(u, v)
    /\ IsPrefix(PathPrefix(v), u.path)
    /\ Len(u.path) > Len(PathPrefix(v)) /\ u.path # v.path

\* One side of the pair is a strict path-descendant of the other side.
Nested(pair) == StrictDescendant(pair[1], pair[2]) \/ StrictDescendant(pair[2], pair[1])

\* The two sides are equal, or differ in scheme or authority.
Unrelated(pair) == pair[1] = pair[2] \/ ~SameSite(pair[1], pair[2])

\* C13: UrlMappings::new fails with InvalidBase ("base cannot be parent or
\* child of root-dir") when a pair has one side that is a strict
\* path-descendant of the other; it succeeds when every pair has equal sides
\* or sides that differ in scheme or authority.
C13_NestedPairRejected ==
    (mPc \in {"built", "failed", "found", "back", "panicked"})
    => /\ (\E i \in 1..Len(mList) : Nested(mList[i]))
          => /\ ~mRes.ok /\ mRes.err = "InvalidBase"
             /\ mRes.why = "base cannot be parent or child of root-dir"
       /\ (\A i \in 1..Len(mList) : Unrelated(mList[i])) => mRes.ok

\* C13 witness: new has rejected the single pair (https://g/p, https://g/p/a).
C13_Witness ==
    /\ mPc = "failed" /\ Len(mList) = 1
    /\ StrictDescendant(mList[1][2], mList[1][1])
    /\ mList[1][1].path = <<<<"p">>>>

\* C14: every successfully constructed UrlMappings satisfies the cross-pair
\* invariant: for two distinct pairs of the list, no side of one is a strict
\* path-prefix of the corresponding side of the other (new returns an error
\* for a list that violates it).
C14_CrossPairInvariant ==
    (mPc \in {"built", "found", "back"})
    => \A i, j \in 1..Len(mList) : \A k \in 1..2 :
          mList[i] # mList[j] => ~StrictDescendant(mList[i][k], mList[j][k])

\* C15: round trip for a single accepted pair (A, B): when a lookup of u in
\* one direction finds (X, s), the lookup of X.join(s) in the other
\* direction finds the other side of the pair with a subpath s', and that
\* side joined with s' is u again.
C15_MappingRoundTrip ==
    (mPc = "back" /\ Len(mList) = 1)
    => /\ mBack # None
       /\ mBack[1][1] = (IF mDir = "new" THEN mList[1][2] ELSE mList[1][1])
       /\ mBackUrl = Ok(mUrl)

\* C16: for every SourceBaseInfo variant, link text that parses as an
\* absolute URL on its own resolves to exactly that URL, whatever the base.
C16_AbsoluteTextIgnoresBase ==
    (sPc = "parsed")
    => \A uri \in {UrlParse(sText)} : uri.ok => sUrl = Ok(uri.url)

\* C16 witness: the absolute text "file:///r/d/a" resolved under a Full base
\* of another scheme.
C16_Witness ==
    /\ sPc = "parsed" /\ sInfo.kind = "Full" /\ sInfo.url.scheme = HttpsScheme
    /\ sText = <<"f", "i", "l", "e", ":", "/", "/", "/", "r", "/", "d", "/", "a">>
    /\ sUrl.ok /\ sUrl.url.scheme = FileScheme

\* The last path segment of a URL.
FileName(u) == Last(u.path)

\* The declared root dir is the source file itself (as a directory URL or
\* as a file URL).
RootIsSource ==
    \/ DeclaredRoot.path = sSource[1].path
    \/ DeclaredRoot.path = Append(sSource[1].path, <<>>)

\* The fragment-only text "#f" was resolved for a `file:` source with a
\* declared root and base: the root a parent directory of the source and the
\* base of another file name, or the root the source file itself.
FragmentOfSource ==
    /\ sPc = "parsed" /\ sText = <<"#", "f">>
    /\ sSource # None /\ sSource[1].scheme = FileScheme
    /\ sRoot # None /\ sRoot[1][2] # None
    /\ \/ InsideDir(sSource[1], DeclaredRoot) /\ FileName(DeclaredBase) # FileName(sSource[1])
       \/ RootIsSource

\* The source URL with the fragment "f".
SourceWithFragment == Ok([sSource[1] EXCEPT !.fragment = Some(<<"f">>)])

\* C17 as stated: for a `file:` source F and a declared (root, base) pair as
\* above, fragment-only text resolves to F with that fragment, whatever the
\* fallback base.
C17_FragmentOfSource == FragmentOfSource => sOut = SourceWithFragment

\* The URL that parse_url_with_base_info holds before its normalization: the
\* resolved URL, rewritten by the mappings.
Resolved == RewriteUrl(sMappings, sUrl.url)

\* A path without one trailing empty segment; the root path is kept.
StripOne(path) == IF Len(path) > 1 /\ Last(path) = <<>> THEN Front(path) ELSE path

\* C18 as stated: an Ok result of scheme `file` has a path that does not
\* end in an empty segment; a result of another scheme is the URL as
\* resolved (and rewritten), trailing slash included.
C18_NoTrailingEmptySegment ==
    (sPc = "parsed" /\ sOut.ok)
    => IF sOut.url.scheme = FileScheme
       THEN Last(sOut.url.path) # <<>>
       ELSE sOut.url = Resolved

\* C18, amended: a `file` result is the resolved URL with one trailing
\* empty segment stripped, the root path `/` being kept; a result of another
\* scheme is the URL as resolved.
C18_OneTrailingSlashStripped ==
    (sPc = "parsed" /\ sOut.ok)
    => \A u \in {Resolved} :
          IF u.scheme = FileScheme
          THEN sOut.url = [u EXCEPT !.path = StripOne(u.path)]
          ELSE sOut.url = u

\* C18 witness: a link resolved to file:///r/a/ after the rewrite, returned
\* as file:///r/a.
C18_Witness ==
    /\ sPc = "parsed" /\ sOut.ok /\ sUrl.ok
    /\ sUrl.url.scheme = HttpsScheme /\ sMappings # <<>>
    /\ Resolved.scheme = FileScheme /\ Last(Resolved.path) = <<>>
    /\ sOut.url.path = <<<<"r">>, <<"a">>>>

-----------------------------------------------------------------------------
(* The shape of returned relative paths; from_source_url.                  *)

\* C19: a path returned by strictly_relative_to never begins with "/" (a
\* leading empty segment is written "./"), so it is neither a root-relative
\* nor a scheme-relative reference.
C19_NoLeadingSlash ==
    (rPc = "done" /\ IsSome(rOut))
    => /\ rOut[1] = <<>> \/ rOut[1][1] # "/"
       /\ ~is_root_relative_link(rOut[1])
       /\ ~is_scheme_relative_link(rOut[1])

\* C19 witness: the first remaining segment was empty and the returned path
\* starts with ".//".
C19_Witness ==
    /\ rPc = "done" /\ IsSome(rOut)
    /\ rSelf.path[1] = <<>> /\ Len(rSelf.path) > 1
    /\ StartsWith(rOut[1], <<".", "/", "/">>)

\* The claim's origin of a URL that can be a base: the URL with the path "/"
\* and no query or fragment.
WithRootPath(u) == [u EXCEPT !.path = <<<<>>>>, !.query = None, !.fragment = None]

\* C20: from_source_url gives NoRoot(url) for a `file:` URL, None for a
\* cannot-be-a-base URL, and for any other URL Full(origin, path) where
\* origin is the URL with the path "/" and origin.join(path) is the URL.
C20_VariantFromUrl ==
    (fPc = "done")
    => IF fUrl.scheme = FileScheme THEN fInfo = NoRoot(fUrl)
       ELSE IF fUrl.opaque THEN fInfo = no_info
       ELSE /\ fInfo.kind = "Full" /\ fInfo.url = WithRootPath(fUrl)
            /\ fJoin = Ok(fUrl)

-----------------------------------------------------------------------------
(* The variant of the prepared base; tie-break; or_fallback; root_dir.     *)

\* prepare_source_base_info has returned Ok.
Prepared == sPc \in {"prepared", "parsed", "text"}

\* C21 as stated: the prepared base is the None variant only when the
\* source has no URL and no fallback base is given; whenever the source has
\* a URL the base is NoRoot or Full (it can resolve locally-relative links).
C21_NoneOnlyWithoutUrl ==
    Prepared
    => /\ sInfo.kind = "None" => (sSource = None /\ sFallback = None)
       /\ sSource # None => sInfo.kind \in {"NoRoot", "Full"}

\* C21, amended: the prepared base is the None variant exactly when no
\* fallback base is given and the source has no URL or a cannot-be-a-base
\* URL; otherwise it is NoRoot or Full.
C21_NoneWithoutBaseUrl ==
    Prepared
    => IF sFallback = None /\ (sSource = None \/ sSource[1].opaque)
       THEN sInfo.kind = "None"
       ELSE sInfo.kind \in {"NoRoot", "Full"}

\* C21 witness: the source URL x:y with a declared root and no fallback was
\* prepared, and the base is the None variant.
C21_Witness ==
    /\ Prepared /\ sSource # None /\ sSource[1].opaque
    /\ sRoot # None /\ sFallback = None
    /\ sInfo.kind = "None"

\* The side of a pair the lookup matches, and the side it returns.
MatchSide == IF mDir = "new" THEN 2 ELSE 1

Counterpart == IF mDir = "new" THEN 1 ELSE 2

\* The subpath of the looked-up URL under the matched side of pair i.
SubpathUnder(i) == StrictlyRelativeTo(mUrl, mList[i][MatchSide], FALSE)

\* C22: map_to_new_url and map_to_old_url return the counterpart and the
\* subpath of the first pair, in declaration order, under whose matched side
\* the URL lies, and none only if the URL lies under no pair.
C22_FirstMatchWins ==
    (mPc \in {"found", "back", "panicked"} /\ mDir # "")
    => IF \A i \in 1..Len(mList) : SubpathUnder(i) = None
       THEN mFound = None
       ELSE \E i \in 1..Len(mList) :
               /\ SubpathUnder(i) # None
               /\ \A j \in 1..(i - 1) : SubpathUnder(j) = None
               /\ mFound = Some(<<mList[i][Counterpart], SubpathUnder(i)[1]>>)

\* C22 witness: the URL lies under the matched side of both pairs, the two
\* counterparts differ, and the lookup has returned the first.
C22_Witness ==
    /\ mPc = "found" /\ Len(mList) = 2
    /\ SubpathUnder(1) # None /\ SubpathUnder(2) # None
    /\ mList[1][Counterpart] # mList[2][Counterpart]
    /\ mFound # None /\ mFound[1][1] = mList[1][Counterpart]

\* The amount of information of a SourceBaseInfo: Full > NoRoot > None.
Rank(info) == IF info.kind = "Full" THEN 2 ELSE IF info.kind = "NoRoot" THEN 1 ELSE 0

\* C23: or_fallback returns the operand with more information under the
\* order Full > NoRoot > None, and self on a tie: a Full self is kept, a
\* NoRoot self is replaced only by a Full fallback, a None self by any
\* fallback that is not None.
C23_OrFallbackOrder ==
    (fPc = "merged")
    => fOut = IF Rank(fFallback) > Rank(fInfo) THEN fFallback ELSE fInfo

\* C23 witness: a NoRoot self was replaced by a Full fallback.
C23_Witness ==
    /\ fPc = "merged" /\ fInfo.kind = "NoRoot" /\ fFallback.kind = "Full"
    /\ fOut = fFallback /\ fOut # fInfo

\* The URL of root-relative text on the filesystem root: `/../` is clamped.
OnFsRoot(text) == Join(FileUrl(<<<<>>>>), text).url

\* That URL with its path joined below root_dir once.
BelowRootDir(root_dir, text) ==
    The({ [u EXCEPT !.path = Front(root_dir.path) \o u.path] : u \in {OnFsRoot(text)} })

\* C24: with a root_dir, root-relative link text that resolves to a `file:`
\* URL yields a URL inside root_dir, the link's path joined below root_dir
\* exactly once, whatever the number of `/../` segments and for a promoted
\* NoRoot as well as for a Full base with a `file:` origin.
C24_JoinedBelowRootDirOnce ==
    (/\ sPc = "text" /\ is_root_relative(sText)
     /\ sFsUrl.ok /\ sFsUrl.url.scheme = FileScheme)
    => /\ sRooted.ok /\ InsideDir(sRooted.url, sDir[1])
       /\ sRooted = Ok(BelowRootDir(sDir[1], sText))

\* The mapping rewrite of parse_url_with_base_info fires for the resolved URL.
RewriteFires == sPc = "parsed" /\ sUrl.ok /\ MapToNewUrl(sMappings, sUrl.url) # None

\* C25: whenever the mapping rewrite fires, the returned URL has the scheme
\* and authority of the pair's root side and a path inside the root side's
\* directory, for every shape of the resolved URL's path.
C25_RewriteStaysUnderRoot ==
    RewriteFires => (sOut.ok /\ InsideDir(sOut.url, DeclaredRoot))

\* C26: merge is per field and total.  The returned Config has every field
\* of Config; the field is `overrides`'s when it is in the defined set and
\* `base`'s otherwise, no join function being applied, so the fields
\* outside the defined set are as in `base`.
C26_MergePerField ==
    cPc = "done" =>
        /\ DOMAIN cOut = ConfigFields
        /\ \A f \in ConfigFields :
            cOut[f] = IF f \in cDefined THEN cOverrides[f] ELSE cBase[f]

\* A merge in which a defined and an undefined field both differ between
\* the two Configs, the defined one being the field the draft joins.
C26_Witness ==
    /\ cPc = "done"
    /\ "max_concurrency" \in cDefined /\ "accept" \notin cDefined
    /\ cBase["max_concurrency"] = 1 /\ cOverrides["max_concurrency"] = 0
    /\ cBase["accept"] # cOverrides["accept"]
    /\ cOut["accept"] = cBase["accept"]
    /\ cOut["max_concurrency"] = cOverrides["max_concurrency"]

====
